---- MODULE Spec2Model ----
(***************************************************************************)
(* Credit ledger and request orchestration of the PlataformaIA server:     *)
(* lib/auth (getCurrentUser, deductCredits, addCredits), the generate,     *)
(* chat and credits API routes, and the Emergent client: its cost rule,    *)
(* the retry loop of request and the stream decoder of chatStream.         *)
(*                                                                         *)
(* Every request handler is a process; one action is one awaited store or  *)
(* provider call together with the synchronous code that follows it up to  *)
(* the next await.  Amounts are in hundredths of a credit.                 *)
(***************************************************************************)
EXTENDS Integers, Sequences, FiniteSets, TLC

\* ------------------------------------------------------------------------
\* Bounds of the model
\* ------------------------------------------------------------------------
MaxRequests == 2
MaxLines == 3

\* ------------------------------------------------------------------------
\* Program constants (hundredths of a credit)
\* ------------------------------------------------------------------------
StartingCredits == 10000
ChatSimple == 30
ChatWithDocument == 50
GenBasic == 200
GenStandard == 500
GenAdvanced == 1000
HistoryTake == 10
\* IEEE +Infinity of the source; larger than every balance the model reaches
Infinity == 999999999

\* ------------------------------------------------------------------------
\* Identities
\* ------------------------------------------------------------------------
Procs == {1, 2}
Accounts == {"u1", "a1"}
\* the e-mail addresses of the ADMIN_EMAILS list (accounts stand for their e-mail)
ADMIN_EMAILS == {"a1"}
NoOne == "none"

\* request inputs
AdjustAmounts == {-9500, -9950}
AddAmounts == {100, -10100}
CreditTypes == {"PURCHASE"}
\* (prompt length, total content length, file count) of a provider answer
GenShapes == {<<100, 1000, 1>>, <<600, 1000, 1>>}
ProviderOutcomes == {"ok", "unsuccessful", "rejected", "exhausted"}
\* the canned answer of getMockGenerationResult: four files of about 3 kB
MockFiles == 4
MockContentLength == 3000
\* "mock": the client has no API key or runs in development
ConfiguredOutcomes == {"ok", "unsuccessful", "mock"}
\* prompt lengths and (total content length, file count) around the
\* thresholds of calculateGenerationCost; <<0, 0>> is the answer files: {}
PromptLengths == {100, 500, 501, 600, 1000, 1001, 1200}
FileSets == {<<0, 0>>, <<1000, 1>>, <<50000, 1>>, <<50001, 1>>,
             <<100000, 20>>, <<100001, 1>>, <<1000, 20>>, <<1000, 21>>,
             <<1000, 25>>}
CostShapes == {<<l, f[1], f[2]>> : l \in PromptLengths, f \in FileSets}
\* what the provider stream yields: fragments, then its end or an error
ProviderStreams == {<<"end">>, <<"chunk", "end">>, <<"error">>, <<"chunk", "error">>}

VARIABLES
    users,          \* user table: account -> [exists, credits, role]
    transactions,   \* creditTransaction table, in creation order
    projects,       \* project table, in creation order
    conversations,  \* conversation table, in creation order (id = index)
    messages,       \* message table, in creation order
    auditLog,       \* auditLog table, in creation order
    started,        \* number of requests received so far
    pc,             \* per handler: the await it is suspended at
    op,             \* per handler: the route it runs
    user,           \* per handler: the AppUser returned by getCurrentUser
    args,           \* per handler: the request body
    result,         \* generate: the GenerationResult of emergent.generate
    project,        \* generate: id of the project row created, 0 if none
    conv,           \* chat: id of the conversation resolved, 0 if none
    ctx,            \* chat: ids of the messages sent as model context
    opened,         \* chat: the provider stream has been dispatched
    full,           \* chat: the fragments accumulated in fullResponse
    stream,         \* chat: what the provider stream has still to yield
    out,            \* chat: events of the response stream: what the route
                    \*   enqueued and, as "cancel", the caller's abort
    dl,             \* deductCredits/addCredits/PATCH: locals of the call:
                    \*   credits = the balance read, updated = the balance
                    \*   written; ntx and overlap are history fields (the
                    \*   table length at the call and whether another debit
                    \*   of the account was past its check at the read)
    ret,            \* deductCredits/addCredits: the value returned
    resp,           \* per handler: the HTTP response
    net,            \* EmergentClient.request: the locals of one call
    dec             \* EmergentClient.chatStream: the locals of one decoding

vars == <<users, transactions, projects, conversations, messages, auditLog,
          started, pc, op, user, args, result, project, conv, ctx, opened,
          full, stream, out, dl, ret, resp, net, dec>>

store == <<users, transactions, projects, conversations, messages, auditLog>>
chatLocals == <<conv, ctx, opened, full, stream, out>>
genLocals == <<result, project>>
client == <<net, dec>>
program == <<store, started, pc, op, user, args, genLocals, chatLocals, dl, ret,
             resp>>

\* ------------------------------------------------------------------------
\* Values
\* ------------------------------------------------------------------------
NoUserRow == [exists |-> FALSE, credits |-> 0, role |-> "USER"]
NoAppUser == [id |-> NoOne, credits |-> 0, isAdmin |-> FALSE]
NoArgs == [userId |-> NoOne, amount |-> 0, type |-> "", conversationId |-> 0,
           hasAttachments |-> FALSE]
\* promptLength, totalContentLength and mocked are history fields: what the
\* cost of a successful result was computed from
NoResult == [success |-> FALSE, estimatedCost |-> 0, nfiles |-> 0,
             promptLength |-> 0, totalContentLength |-> 0, mocked |-> FALSE]
NoCall == [userId |-> NoOne, amount |-> 0, credits |-> 0, updated |-> 0,
           ntx |-> 0, overlap |-> FALSE]
NoRet == [valid |-> FALSE, success |-> FALSE, remaining |-> 0]
NoResp == [status |-> 0, required |-> 0, available |-> 0, creditsCost |-> 0,
           previousBalance |-> 0, newBalance |-> 0, success |-> FALSE]

Response(status) == [NoResp EXCEPT !.status = status]

Min(a, b) == IF a < b THEN a ELSE b
Max(a, b) == IF a > b THEN a ELSE b

\* ------------------------------------------------------------------------
\* lib/auth
\* ------------------------------------------------------------------------
\* role === 'ADMIN' || ADMIN_EMAILS.includes(email.toLowerCase())
checkIsAdmin(email, role) == role = "ADMIN" \/ email \in ADMIN_EMAILS

\* the row prisma.user.upsert creates for a first login
CreatedUser(email) ==
    [exists |-> TRUE, credits |-> StartingCredits,
     role |-> IF email \in ADMIN_EMAILS THEN "ADMIN" ELSE "USER"]

\* the user table after the upsert of getCurrentUser
Upsert(tbl, who) ==
    IF who \in Accounts /\ ~tbl[who].exists
    THEN [tbl EXCEPT ![who] = CreatedUser(who)]
    ELSE tbl

\* the AppUser getCurrentUser returns (null without a session)
getCurrentUser(tbl, who) ==
    IF who \notin Accounts THEN NoAppUser
    ELSE LET row == Upsert(tbl, who)[who]
             isAdmin == checkIsAdmin(who, row.role)
         IN [id |-> who,
             credits |-> IF isAdmin THEN Infinity ELSE row.credits,
             isAdmin |-> isAdmin]

\* mutant: the role is compared with the wrong literal and the list is not
\* consulted
DeductIsAdminWrongLiteral(u) == users[u].role = "admin"

\* deductCredits: "Admin has unlimited credits"
DeductIsAdmin(u) == checkIsAdmin(u, users[u].role)

\* mutant: the balance is only tested for being positive
DeductInsufficientPositive(credits, amount) == credits <= 0

\* deductCredits: "Check sufficient credits"
DeductInsufficient(credits, amount) == credits < amount

\* the creditTransaction row deductCredits creates
UsageTransaction(userId, amount) ==
    [userId |-> userId, amount |-> -amount, type |-> "USAGE"]

\* the creditTransaction row addCredits creates
CreditTransaction(userId, amount, type) ==
    [userId |-> userId, amount |-> amount, type |-> type]

\* ------------------------------------------------------------------------
\* lib/emergent
\* ------------------------------------------------------------------------
\* two assignments in sequence: the later test overrides the earlier one
calculateGenerationCost(promptLength, totalContentLength, nfiles) ==
    LET base == GenBasic
        mid == IF promptLength > 500 \/ totalContentLength > 50000
               THEN GenStandard ELSE base
    IN IF promptLength > 1000 \/ totalContentLength > 100000 \/ nfiles > 20
       THEN GenAdvanced ELSE mid

\* the GenerationResult of emergent.generate for a provider outcome
GenerationResult(outcome, shape) ==
    CASE outcome = "mock" ->
           [success |-> TRUE, estimatedCost |-> GenBasic, nfiles |-> MockFiles,
            promptLength |-> shape[1], totalContentLength |-> MockContentLength,
            mocked |-> TRUE]
      [] outcome = "ok" ->
           [success |-> TRUE,
            estimatedCost |-> calculateGenerationCost(shape[1], shape[2], shape[3]),
            nfiles |-> shape[3],
            promptLength |-> shape[1], totalContentLength |-> shape[2],
            mocked |-> FALSE]
      [] OTHER -> NoResult

\* ------------------------------------------------------------------------
\* lib/emergent: EmergentClient.request
\* ------------------------------------------------------------------------
\* EMERGENT_CONFIG
maxRetries == 3
retryDelay == 1000

\* HTTP statuses the provider answers with
Statuses == {200, 404, 429, 503}

\* what one fetch comes to: a response (its status, and whether its body is
\* JSON), a rejection by the network, or a rejection by the abort signal
Answer(status, json) == [kind |-> "response", status |-> status, json |-> json]
NetworkError == [kind |-> "network", status |-> 0, json |-> FALSE]
AbortError == [kind |-> "abort", status |-> 0, json |-> FALSE]
NoError == [kind |-> "none", status |-> 0, json |-> FALSE]
FetchResponses == {Answer(status, TRUE) : status \in Statuses} \cup {Answer(200, FALSE)}

\* the locals of request: where it is suspended, the loop index, the timer of
\* the abort controller, lastError; log and sleeps are history fields (what
\* every fetch came to, and every backoff delay slept)
NoRequest ==
    [phase |-> "idle", attempt |-> 0, timer |-> "none", log |-> <<>>,
     sleeps |-> <<>>, lastError |-> NoError]

\* response.ok
responseOk(status) == status >= 200 /\ status <= 299

\* what `await response.json()` of an ok response throws on a body that is
\* not JSON is caught like every other error
Succeeds(o) == o.kind = "response" /\ responseOk(o.status) /\ o.json

\* mutant: a 429 is not told apart from the other 4xx
NonRetryableAny4xx(error) ==
    /\ error.kind = "response" /\ ~responseOk(error.status)
    /\ error.status >= 400 /\ error.status < 500

\* "Don't retry on certain errors": an EmergentApiError with a 4xx status
\* other than 429
NonRetryable(error) ==
    /\ error.kind = "response" /\ ~responseOk(error.status)
    /\ error.status >= 400 /\ error.status < 500 /\ error.status # 429

\* mutant: the delay grows linearly
BackoffDelayLinear(attempt) == retryDelay * (attempt + 1)

\* retryDelay * Math.pow(2, attempt)
BackoffDelay(attempt) == retryDelay * (2 ^ attempt)

clearTimeout(timer) == IF timer = "armed" THEN "cleared" ELSE timer

\* the catch block for the error of attempt n.attempt, up to the next await:
\* rethrow, or start the backoff sleep, or (after the last attempt) leave the
\* loop, clear the timer and throw lastError
RequestCatch(n, error) ==
    LET m == [n EXCEPT !.lastError = error]
    IN IF NonRetryable(error) THEN [m EXCEPT !.phase = "thrown"]
       ELSE IF m.attempt < maxRetries
       THEN [m EXCEPT !.phase = "sleep",
                      !.sleeps = Append(@, BackoffDelay(m.attempt))]
       ELSE [m EXCEPT !.phase = "thrown", !.attempt = @ + 1,
                      !.timer = clearTimeout(@)]

\* ------------------------------------------------------------------------
\* lib/emergent: EmergentClient.chatStream, the stream decoder
\* ------------------------------------------------------------------------
\* bytes are one-character strings
LF == "\n"
Marker == <<"d", "a", "t", "a", ":", " ">>
DoneSentinel == <<"[", "D", "O", "N", "E", "]">>
Fragments == {"A", "B"}

\* the lines a provider stream is made of: a record with fragment A or B, a
\* record without content, a record that is not JSON, the sentinel, a blank
LineKinds == {"A", "B", "empty", "malformed", "done", "blank"}

LineOf(kind) ==
    CASE kind \in Fragments -> Marker \o <<"{", kind, "}">>
      [] kind = "empty" -> Marker \o <<"{", "}">>
      [] kind = "malformed" -> Marker \o <<"{", "A">>
      [] kind = "done" -> Marker \o DoneSentinel
      [] kind = "blank" -> <<>>

\* the bytes of a stream of lines; the last line may lack its newline
RECURSIVE Bytes(_, _)
Bytes(lines, terminated) ==
    IF lines = <<>> THEN <<>>
    ELSE LineOf(Head(lines))
         \o (IF Len(lines) > 1 \/ terminated THEN <<LF>> ELSE <<>>)
         \o Bytes(Tail(lines), terminated)

\* the locals of chatStream: the chunks the reader has still to deliver,
\* buffer, whether the generator has returned at the sentinel; yielded is a
\* history field (the fragments yielded so far), lines/terminated/cut/whole
\* record the input
NoDecode ==
    [phase |-> "idle", lines |-> <<>>, terminated |-> TRUE, cut |-> 0,
     whole |-> <<>>, chunks |-> <<>>, buffer |-> <<>>, yielded |-> <<>>,
     done |-> FALSE]

\* buffer.split('\n')
RECURSIVE SplitLines(_)
SplitLines(s) ==
    IF \A i \in 1..Len(s) : s[i] # LF THEN <<s>>
    ELSE LET i == CHOOSE k \in 1..Len(s) :
                      s[k] = LF /\ \A j \in 1..(k - 1) : s[j] # LF
         IN <<SubSeq(s, 1, i - 1)>> \o SplitLines(SubSeq(s, i + 1, Len(s)))

\* mutant: the unfinished line is not kept for the next read
RemainderDropped(segs) == <<>>

\* buffer = lines.pop() ?? ''
Remainder(segs) == segs[Len(segs)]

\* line.startsWith(prefix)
startsWith(line, prefix) ==
    Len(line) >= Len(prefix) /\ SubSeq(line, 1, Len(prefix)) = prefix

\* JSON.parse(data) and parsed.choices?.[0]?.delta?.content
JSONParse(data) ==
    IF Len(data) = 3 /\ data[1] = "{" /\ data[3] = "}" /\ data[2] \in Fragments
    THEN [ok |-> TRUE, content |-> data[2]]
    ELSE IF data = <<"{", "}">> THEN [ok |-> TRUE, content |-> ""]
    ELSE [ok |-> FALSE, content |-> ""]

\* mutant: a record that cannot be parsed ends the generator
DecodeLineAborting(st, line) ==
    IF st.done \/ ~startsWith(line, Marker) THEN st
    ELSE LET data == SubSeq(line, Len(Marker) + 1, Len(line))
             parsed == JSONParse(data)
         IN IF data = DoneSentinel THEN [st EXCEPT !.done = TRUE]
            ELSE IF ~parsed.ok THEN [st EXCEPT !.done = TRUE]
            ELSE IF parsed.content # ""
            THEN [st EXCEPT !.yielded = Append(@, parsed.content)]
            ELSE st

\* the body of `for (const line of lines)`: nothing after the return at the
\* sentinel; a data line yields its content; parse errors are ignored
DecodeLine(st, line) ==
    IF st.done \/ ~startsWith(line, Marker) THEN st
    ELSE LET data == SubSeq(line, Len(Marker) + 1, Len(line))
             parsed == JSONParse(data)
         IN IF data = DoneSentinel THEN [st EXCEPT !.done = TRUE]
            ELSE IF parsed.ok /\ parsed.content # ""
            THEN [st EXCEPT !.yielded = Append(@, parsed.content)]
            ELSE st

RECURSIVE DecodeLines(_, _)
DecodeLines(st, lines) ==
    IF lines = <<>> THEN st
    ELSE DecodeLines(DecodeLine(st, Head(lines)), Tail(lines))

\* one turn of `while (true)` for a chunk the reader delivers
DecodeChunk(d, chunk) ==
    LET segs == SplitLines(d.buffer \o chunk)
        st == DecodeLines([yielded |-> d.yielded, done |-> d.done],
                          SubSeq(segs, 1, Len(segs) - 1))
    IN [d EXCEPT !.buffer = Remainder(segs), !.yielded = st.yielded,
                 !.done = st.done]

\* the fragments chatStream yields for the chunks of a whole response body
RECURSIVE chatStreamYield(_, _)
chatStreamYield(d, chunks) ==
    IF chunks = <<>> \/ d.done THEN d.yielded
    ELSE chatStreamYield(DecodeChunk(d, Head(chunks)), Tail(chunks))

\* ------------------------------------------------------------------------
\* Initial states
\* ------------------------------------------------------------------------
\* no request received yet, every handler idle
Idle ==
    /\ started = 0
    /\ pc = [p \in Procs |-> "idle"]
    /\ op = [p \in Procs |-> "none"]
    /\ user = [p \in Procs |-> NoAppUser]
    /\ args = [p \in Procs |-> NoArgs]
    /\ result = [p \in Procs |-> NoResult]
    /\ project = [p \in Procs |-> 0]
    /\ conv = [p \in Procs |-> 0]
    /\ ctx = [p \in Procs |-> <<>>]
    /\ opened = [p \in Procs |-> FALSE]
    /\ full = [p \in Procs |-> <<>>]
    /\ stream = [p \in Procs |-> <<>>]
    /\ out = [p \in Procs |-> <<>>]
    /\ dl = [p \in Procs |-> NoCall]
    /\ ret = [p \in Procs |-> NoRet]
    /\ resp = [p \in Procs |-> NoResp]
    /\ net = NoRequest
    /\ dec = NoDecode

\* the store of a fresh deployment: empty tables
Init ==
    /\ users = [u \in Accounts |-> NoUserRow]
    /\ transactions = <<>>
    /\ projects = <<>>
    /\ conversations = <<>>
    /\ messages = <<>>
    /\ auditLog = <<>>
    /\ Idle

\* the store after both accounts have logged in and the admin has adjusted
\* the balance of u1 by d (PATCH /api/credits), with no request in flight
\* any more
AfterAdjust(d) ==
    LET was == CreatedUser("u1").credits
        now == Max(0, was + d)
    IN /\ users = [u \in Accounts |->
                     IF u = "u1" THEN [CreatedUser(u) EXCEPT !.credits = now]
                     ELSE CreatedUser(u)]
       /\ transactions = <<[userId |-> "u1", type |-> "ADJUSTMENT",
                            amount |-> d, balance |-> now]>>
       /\ projects = <<>>
       /\ conversations = <<>>
       /\ messages = <<>>
       /\ auditLog = <<[userId |-> "a1", action |-> "credits.adjust",
                        entityId |-> "u1"]>>

\* a fresh deployment, or one where the balance of u1 has been adjusted
InitAdjusted ==
    /\ Init \/ (\E d \in AdjustAmounts : AfterAdjust(d))
    /\ Idle

\* the store after u1 has completed n simple chat exchanges of one fragment
\* each on one conversation, with no request in flight any more
AfterExchanges(n) ==
    /\ users = [u \in Accounts |->
                  IF u = "u1"
                  THEN [exists |-> TRUE, credits |-> StartingCredits - n * ChatSimple,
                        role |-> "USER"]
                  ELSE NoUserRow]
    /\ transactions = [i \in 1..n |-> UsageTransaction("u1", ChatSimple)]
    /\ projects = <<>>
    /\ conversations = <<[userId |-> "u1", messageCount |-> 2 * n]>>
    /\ messages = [i \in 1..(2 * n) |->
                     IF i % 2 = 1
                     THEN [conversationId |-> 1, role |-> "USER",
                           content |-> <<"message">>]
                     ELSE [conversationId |-> 1, role |-> "ASSISTANT",
                           content |-> <<"chunk">>]]
    /\ auditLog = <<>>
    /\ Idle

\* a conversation that already holds as many messages as the context takes
InitLongConversation == AfterExchanges(HistoryTake \div 2)

\* ------------------------------------------------------------------------
\* Request arrival
\* ------------------------------------------------------------------------
Free(p) == pc[p] \in {"idle", "done"}

\* a request is served by the first handler that is not busy
CanStart(p) ==
    /\ Free(p)
    /\ started < MaxRequests
    /\ \A q \in Procs : q < p => ~Free(q)

\* a handler starts on route o with body a for the session of who:
\* getCurrentUser runs (upserting the user row) and the locals are fresh
Arrive(p, o, who, a) ==
    /\ CanStart(p)
    /\ started' = started + 1
    /\ op' = [op EXCEPT ![p] = o]
    /\ args' = [args EXCEPT ![p] = a]
    /\ users' = Upsert(users, who)
    /\ user' = [user EXCEPT ![p] = getCurrentUser(users, who)]
    /\ result' = [result EXCEPT ![p] = NoResult]
    /\ project' = [project EXCEPT ![p] = 0]
    /\ conv' = [conv EXCEPT ![p] = 0]
    /\ ctx' = [ctx EXCEPT ![p] = <<>>]
    /\ opened' = [opened EXCEPT ![p] = FALSE]
    /\ full' = [full EXCEPT ![p] = <<>>]
    /\ stream' = [stream EXCEPT ![p] = <<>>]
    /\ out' = [out EXCEPT ![p] = <<>>]
    /\ dl' = [dl EXCEPT ![p] = NoCall]
    /\ ret' = [ret EXCEPT ![p] = NoRet]
    /\ UNCHANGED <<transactions, projects, conversations, messages, auditLog,
                   client>>

\* the handler answers and ends
Reply(p, r) ==
    /\ pc' = [pc EXCEPT ![p] = "done"]
    /\ resp' = [resp EXCEPT ![p] = r]

\* ------------------------------------------------------------------------
\* deductCredits(userId, amount, description)
\* ------------------------------------------------------------------------
\* the caller's code after `await deductCredits(...)`: both routes drop the
\* returned value; generate answers success, chat goes on to read the history
DeductReturn(p, r) ==
    /\ ret' = [ret EXCEPT ![p] = r]
    /\ IF op[p] = "generate"
       THEN Reply(p, [NoResp EXCEPT !.status = 200, !.success = TRUE,
                              !.creditsCost = result[p].estimatedCost])
       ELSE /\ pc' = [pc EXCEPT ![p] = "c_history"]
            /\ UNCHANGED resp

\* the call: arguments bound, nothing read yet
DeductCall(p, userId, amount) ==
    /\ pc' = [pc EXCEPT ![p] = "d_find"]
    /\ dl' = [dl EXCEPT ![p] = [NoCall EXCEPT !.userId = userId,
                                             !.amount = amount,
                                             !.ntx = Len(transactions')]]

PastCheck(q) == pc[q] \in {"d_update", "d_create"}

\* prisma.user.findUnique, then the three early returns
DeductFind(p) ==
    /\ pc[p] = "d_find"
    /\ LET u == dl[p].userId
           row == users[u]
           seen == [dl[p] EXCEPT !.credits = row.credits,
                                 !.overlap = \E q \in Procs \ {p} :
                                                PastCheck(q) /\ dl[q].userId = u]
       IN /\ dl' = [dl EXCEPT ![p] = seen]
          /\ IF ~row.exists
             THEN DeductReturn(p, [valid |-> TRUE, success |-> FALSE, remaining |-> 0])
             ELSE IF DeductIsAdmin(u)
             THEN DeductReturn(p, [valid |-> TRUE, success |-> TRUE,
                                   remaining |-> Infinity])
             ELSE IF DeductInsufficient(row.credits, dl[p].amount)
             THEN DeductReturn(p, [valid |-> TRUE, success |-> FALSE,
                                   remaining |-> row.credits])
             ELSE /\ pc' = [pc EXCEPT ![p] = "d_update"]
                  /\ UNCHANGED <<ret, resp>>
    /\ UNCHANGED <<store, client, started, op, user, args, genLocals, chatLocals>>

\* prisma.user.update: credits { decrement: amount }
DeductUpdate(p) ==
    /\ pc[p] = "d_update"
    /\ LET u == dl[p].userId
           now == users[u].credits - dl[p].amount
       IN /\ users' = [users EXCEPT ![u].credits = now]
          /\ dl' = [dl EXCEPT ![p].updated = now]
    /\ pc' = [pc EXCEPT ![p] = "d_create"]
    /\ UNCHANGED <<transactions, projects, conversations, messages, auditLog,
                   client, started, op, user, args, genLocals, chatLocals, ret, resp>>

\* prisma.creditTransaction.create, then return success
DeductCreate(p) ==
    /\ pc[p] = "d_create"
    /\ transactions' = Append(transactions,
                              UsageTransaction(dl[p].userId, dl[p].amount))
    /\ DeductReturn(p, [valid |-> TRUE, success |-> TRUE,
                        remaining |-> dl[p].updated])
    /\ UNCHANGED <<users, projects, conversations, messages, auditLog,
                   client, started, op, user, args, genLocals, chatLocals, dl>>

\* prisma.creditTransaction.create throws (the store refuses the write): the
\* catch block of deductCredits returns failure; the decrement of
\* DeductUpdate is already written
DeductCreateFails(p) ==
    /\ pc[p] = "d_create"
    /\ UNCHANGED transactions
    /\ DeductReturn(p, [valid |-> TRUE, success |-> FALSE, remaining |-> 0])
    /\ UNCHANGED <<users, projects, conversations, messages, auditLog,
                   client, started, op, user, args, genLocals, chatLocals, dl>>

\* ------------------------------------------------------------------------
\* POST /api/generate
\* ------------------------------------------------------------------------
\* "Check and deduct credits (admins bypass)"
GenerateInsufficient(u, cost) == ~u.isAdmin /\ u.credits < cost

\* mutant: the route does not look at result.success
GenerateFailedUnchecked(r) == FALSE

\* the route's test of the provider result
GenerateFailed(r) == ~r.success

\* the project row the route creates
ProjectRow(userId, r) ==
    [userId |-> userId, status |-> "READY", creditsCost |-> r.estimatedCost,
     nfiles |-> r.nfiles]

\* authentication and body validation, for a request with a session and a
\* valid body (the 401 and 400 answers are given before any other call)
StartGenerate(p, who) ==
    /\ Arrive(p, "generate", who, NoArgs)
    /\ pc' = [pc EXCEPT ![p] = "g_provider"]
    /\ resp' = [resp EXCEPT ![p] = NoResp]

\* emergent.generate, then the failure test and the balance test
GenerateProviderFrom(p, outcomes, shapes) ==
    /\ pc[p] = "g_provider"
    /\ \E outcome \in outcomes, shape \in shapes :
         LET r == GenerationResult(outcome, shape)
         IN /\ result' = [result EXCEPT ![p] = r]
            /\ IF GenerateFailed(r)
               THEN Reply(p, Response(500))
               ELSE IF GenerateInsufficient(user[p], r.estimatedCost)
               THEN Reply(p, [NoResp EXCEPT !.status = 402,
                                            !.required = r.estimatedCost,
                                            !.available = user[p].credits])
               ELSE /\ pc' = [pc EXCEPT ![p] = "g_persist"]
                    /\ UNCHANGED resp
    /\ UNCHANGED <<store, client, started, op, user, args, project, chatLocals, dl, ret>>

\* the provider step with a live client and the two answers of GenShapes
GenerateProvider(p) == GenerateProviderFrom(p, ProviderOutcomes, GenShapes)

\* the provider step with any client configuration and the answers of
\* CostShapes
GenerateConfigured(p) == GenerateProviderFrom(p, ConfiguredOutcomes, CostShapes)

\* prisma.project.create, then the call of deductCredits
GeneratePersist(p) ==
    /\ pc[p] = "g_persist"
    /\ projects' = Append(projects, ProjectRow(user[p].id, result[p]))
    /\ project' = [project EXCEPT ![p] = Len(projects) + 1]
    /\ UNCHANGED transactions
    /\ DeductCall(p, user[p].id, result[p].estimatedCost)
    /\ UNCHANGED <<users, conversations, messages, auditLog, client, started, op, user,
                   args, result, chatLocals, ret, resp>>

\* ------------------------------------------------------------------------
\* POST /api/credits and addCredits(userId, amount, description, type)
\* ------------------------------------------------------------------------
\* (session, x-webhook-secret matches) of the callers of the credits route
CreditCallers == {<<NoOne, TRUE>>, <<"a1", FALSE>>, <<"u1", FALSE>>}
WebhookCaller == <<NoOne, TRUE>>

\* the route's code after `await addCredits(...)`: "Log admin action" and the
\* answer (nothing reads the auditLog table, so its row is written in the step
\* of the call that precedes it)
AddReturn(p, r) ==
    /\ ret' = [ret EXCEPT ![p] = r]
    /\ auditLog' = IF user[p].isAdmin
                   THEN Append(auditLog, [userId |-> user[p].id,
                                          action |-> "credits.add",
                                          entityId |-> args[p].userId])
                   ELSE auditLog
    /\ Reply(p, [NoResp EXCEPT !.status = 200, !.success = r.success,
                         !.newBalance = r.remaining])

\* authentication, the admin-or-webhook test, the body, the call of addCredits
StartAddCredits(p, c, userId) ==
    \E amount \in AddAmounts, type \in CreditTypes :
        LET who == c[1]
            isWebhook == c[2]
            u == getCurrentUser(users, who)
        IN /\ Arrive(p, "credits.add", who,
                     [NoArgs EXCEPT !.userId = userId, !.amount = amount,
                                    !.type = type])
           /\ IF ~isWebhook /\ who # NoOne /\ ~u.isAdmin
              THEN Reply(p, Response(403))
              ELSE /\ pc' = [pc EXCEPT ![p] = "a_update"]
                   /\ resp' = [resp EXCEPT ![p] = NoResp]

\* prisma.user.update: credits { increment: amount }; throws for a missing row
AddUpdate(p) ==
    /\ pc[p] = "a_update"
    /\ LET u == args[p].userId
           now == users[u].credits + args[p].amount
       IN IF ~users[u].exists
          THEN /\ AddReturn(p, [valid |-> TRUE, success |-> FALSE, remaining |-> 0])
               /\ UNCHANGED <<users, dl>>
          ELSE /\ users' = [users EXCEPT ![u].credits = now]
               /\ dl' = [dl EXCEPT ![p] = [NoCall EXCEPT !.userId = u,
                                                        !.amount = args[p].amount,
                                                        !.credits = users[u].credits,
                                                        !.updated = now,
                                                        !.ntx = Len(transactions)]]
               /\ pc' = [pc EXCEPT ![p] = "a_create"]
               /\ UNCHANGED <<ret, resp, auditLog>>
    /\ UNCHANGED <<transactions, projects, conversations, messages,
                   client, started, op, user, args, genLocals, chatLocals>>

\* prisma.creditTransaction.create, then return success
AddCreate(p) ==
    /\ pc[p] = "a_create"
    /\ transactions' = Append(transactions,
                              CreditTransaction(args[p].userId, args[p].amount,
                                                args[p].type))
    /\ AddReturn(p, [valid |-> TRUE, success |-> TRUE, remaining |-> dl[p].updated])
    /\ UNCHANGED <<users, projects, conversations, messages,
                   client, started, op, user, args, genLocals, chatLocals, dl>>

\* ------------------------------------------------------------------------
\* PATCH /api/credits
\* ------------------------------------------------------------------------
\* mutant: the new balance is not floored at zero
AdjustedBalanceUnclamped(credits, amount) == credits + amount

\* Math.max(0, targetUser.credits + amount)
AdjustedBalance(credits, amount) == Max(0, credits + amount)

\* the creditTransaction row the adjustment creates
AdjustmentTransaction(userId, amount, newBalance) ==
    [userId |-> userId, type |-> "ADJUSTMENT", amount |-> amount,
     balance |-> newBalance]

\* authentication, the admin test, the body
StartAdjust(p, who, userId) ==
    \E amount \in AdjustAmounts :
        LET u == getCurrentUser(users, who)
        IN /\ Arrive(p, "credits.adjust", who,
                     [NoArgs EXCEPT !.userId = userId, !.amount = amount])
           /\ IF ~u.isAdmin THEN Reply(p, Response(403))
              ELSE /\ pc' = [pc EXCEPT ![p] = "p_find"]
                   /\ resp' = [resp EXCEPT ![p] = NoResp]

\* prisma.user.findUnique of the target, the two rejections, newBalance
AdjustFind(p) ==
    /\ pc[p] = "p_find"
    /\ LET u == args[p].userId
           row == users[u]
       IN IF ~row.exists
          THEN Reply(p, Response(404)) /\ UNCHANGED dl
          ELSE IF checkIsAdmin(u, row.role)
          THEN Reply(p, Response(400)) /\ UNCHANGED dl
          ELSE /\ dl' = [dl EXCEPT ![p] =
                           [NoCall EXCEPT !.userId = u,
                                          !.amount = args[p].amount,
                                          !.credits = row.credits,
                                          !.updated = AdjustedBalance(row.credits,
                                                                      args[p].amount),
                                          !.ntx = Len(transactions)]]
               /\ pc' = [pc EXCEPT ![p] = "p_tx"]
               /\ UNCHANGED resp
    /\ UNCHANGED <<store, client, started, op, user, args, genLocals, chatLocals, ret>>

\* prisma.$transaction: user.update { credits: newBalance } and
\* creditTransaction.create, as one unit; then the audit row and the answer
AdjustTransaction(p) ==
    /\ pc[p] = "p_tx"
    /\ users' = [users EXCEPT ![dl[p].userId].credits = dl[p].updated]
    /\ transactions' = Append(transactions,
                              AdjustmentTransaction(dl[p].userId, dl[p].amount,
                                                    dl[p].updated))
    /\ auditLog' = Append(auditLog, [userId |-> user[p].id,
                                     action |-> "credits.adjust",
                                     entityId |-> dl[p].userId])
    /\ Reply(p, [NoResp EXCEPT !.status = 200, !.success = TRUE,
                         !.previousBalance = dl[p].credits,
                         !.newBalance = users'[dl[p].userId].credits])
    /\ UNCHANGED <<projects, conversations, messages, client, started, op,
                   user, args, genLocals, chatLocals, dl, ret>>

\* ------------------------------------------------------------------------
\* POST /api/chat
\* ------------------------------------------------------------------------
\* "Calculate credit cost"
ChatCost(hasAttachments) == IF hasAttachments THEN ChatWithDocument ELSE ChatSimple

\* mutant: the balance is only tested for being positive
ChatInsufficientPositive(u, cost) == ~u.isAdmin /\ u.credits <= 0

\* "Check and deduct credits (admins bypass)"
ChatInsufficient(u, cost) == ~u.isAdmin /\ u.credits < cost

\* mutant: the conversation is looked up by id alone
FindConversationAnyOwner(id, userId) ==
    IF id \in 1..Len(conversations) THEN id ELSE 0

\* prisma.conversation.findUnique({ id, userId }): the id found, 0 if none
FindConversation(id, userId) ==
    IF id \in 1..Len(conversations) /\ conversations[id].userId = userId
    THEN id ELSE 0

\* ids of the messages of conversation c, orderBy createdAt asc
MessagesOf(c) ==
    SelectSeq([i \in 1..Len(messages) |-> i],
              LAMBDA i : messages[i].conversationId = c)

\* findMany({ orderBy asc, take: n })
Take(s, n) == SubSeq(s, 1, Min(n, Len(s)))

\* authentication, the body, the cost and the balance test, for a request
\* with a session and a non-empty message
StartChat(p, who, hasAttachments) ==
    \E conversationId \in 0..Len(conversations) :
        LET u == getCurrentUser(users, who)
            creditCost == ChatCost(hasAttachments)
        IN /\ Arrive(p, "chat", who,
                     [NoArgs EXCEPT !.conversationId = conversationId,
                                    !.hasAttachments = hasAttachments,
                                    !.amount = creditCost])
           /\ IF ChatInsufficient(u, creditCost)
              THEN Reply(p, [NoResp EXCEPT !.status = 402,
                                           !.required = creditCost,
                                           !.available = u.credits])
              ELSE /\ pc' = [pc EXCEPT ![p] = "c_conv"]
                   /\ resp' = [resp EXCEPT ![p] = NoResp]

\* "Get or create conversation": findUnique, and create when none was found
\* (ownership of a conversation never changes, so the two awaits are one step)
ChatConversation(p) ==
    /\ pc[p] = "c_conv"
    /\ LET found == IF args[p].conversationId # 0
                    THEN FindConversation(args[p].conversationId, user[p].id)
                    ELSE 0
       IN IF found # 0
          THEN /\ conv' = [conv EXCEPT ![p] = found]
               /\ UNCHANGED conversations
          ELSE /\ conversations' = Append(conversations,
                                          [userId |-> user[p].id, messageCount |-> 0])
               /\ conv' = [conv EXCEPT ![p] = Len(conversations) + 1]
    /\ pc' = [pc EXCEPT ![p] = "c_user"]
    /\ UNCHANGED <<users, transactions, projects, messages, auditLog, client, started,
                   op, user, args, genLocals, ctx, opened, full, stream, out, dl,
                   ret, resp>>

\* "Save user message", then the call of deductCredits
ChatSaveUser(p) ==
    /\ pc[p] = "c_user"
    /\ messages' = Append(messages, [conversationId |-> conv[p], role |-> "USER",
                                     content |-> <<"message">>])
    /\ UNCHANGED transactions
    /\ DeductCall(p, user[p].id, args[p].amount)
    /\ UNCHANGED <<users, projects, conversations, auditLog, client, started, op, user,
                   args, genLocals, chatLocals, ret, resp>>

\* "Get conversation history for context", the system prompt, and the start
\* of the ReadableStream, which dispatches emergent.chatStream; the route
\* returns the streaming Response
ChatHistory(p) ==
    /\ pc[p] = "c_history"
    /\ ctx' = [ctx EXCEPT ![p] = <<0>> \o Take(MessagesOf(conv[p]), HistoryTake)]
    /\ opened' = [opened EXCEPT ![p] = TRUE]
    /\ \E script \in ProviderStreams : stream' = [stream EXCEPT ![p] = script]
    /\ resp' = [resp EXCEPT ![p] = [NoResp EXCEPT !.status = 200]]
    /\ pc' = [pc EXCEPT ![p] = "c_stream"]
    /\ UNCHANGED <<store, client, started, op, user, args, genLocals, conv, full, out,
                   dl, ret>>

\* the caller has cancelled the response stream of handler p
Cancelled(p) == \E i \in 1..Len(out[p]) : out[p][i] = "cancel"

\* mutant: the first fragment ends the loop
AfterEventFirstFragment(event) ==
    CASE event = "chunk" -> "c_assistant"
      [] event = "end" -> "c_assistant"
      [] event = "error" -> "done"

\* mutant: an error of the provider stream is taken for its end
AfterEventErrorSwallowed(event) ==
    CASE event = "chunk" -> "c_stream"
      [] event = "end" -> "c_assistant"
      [] event = "error" -> "c_assistant"

\* where the loop goes after an event of the provider stream
AfterEvent(event) ==
    CASE event = "chunk" -> "c_stream"
      [] event = "end" -> "c_assistant"
      [] event = "error" -> "done"

\* mutant: the catch block sends the done signal
CatchMarkerDone == "DONE"

\* what the catch block enqueues
CatchMarker == "error"

\* one turn of `for await (const chunk of emergent.chatStream(...))`:
\* a fragment is relayed, the generator ends, or it throws. On a cancelled
\* stream controller.enqueue throws: the loop is left for the catch block,
\* whose own enqueue throws again, and nothing is enqueued
ChatStream(p) ==
    /\ pc[p] = "c_stream"
    /\ stream' = [stream EXCEPT ![p] = Tail(@)]
    /\ CASE Head(stream[p]) = "chunk" ->
                /\ full' = [full EXCEPT ![p] = Append(@, "chunk")]
                /\ IF Cancelled(p)
                   THEN /\ pc' = [pc EXCEPT ![p] = "done"]
                        /\ UNCHANGED out
                   ELSE /\ out' = [out EXCEPT ![p] = Append(@, "content")]
                        /\ pc' = [pc EXCEPT ![p] = AfterEvent("chunk")]
           [] Head(stream[p]) = "end" ->
                /\ pc' = [pc EXCEPT ![p] = AfterEvent("end")]
                /\ UNCHANGED <<full, out>>
           [] Head(stream[p]) = "error" ->
                /\ out' = [out EXCEPT ![p] = IF Cancelled(p) THEN @
                                             ELSE Append(@, CatchMarker)]
                /\ pc' = [pc EXCEPT ![p] = AfterEvent("error")]
                /\ UNCHANGED full
    /\ UNCHANGED <<store, client, started, op, user, args, genLocals, conv, ctx, opened,
                   dl, ret, resp>>

\* "Save assistant response"
ChatSaveAssistant(p) ==
    /\ pc[p] = "c_assistant"
    /\ messages' = Append(messages, [conversationId |-> conv[p],
                                     role |-> "ASSISTANT", content |-> full[p]])
    /\ pc' = [pc EXCEPT ![p] = "c_count"]
    /\ UNCHANGED <<users, transactions, projects, conversations, auditLog,
                   client, started, op, user, args, genLocals, chatLocals, dl, ret, resp>>

\* mutant: the exchange is counted as one message
IncrementMessageCountByOne(c) == [c EXCEPT !.messageCount = @ + 1]

\* messageCount: { increment: 2 }
IncrementMessageCount(c) == [c EXCEPT !.messageCount = @ + 2]

\* "Update conversation message count", the done signal, close (on a
\* cancelled stream the enqueue of the done signal throws, as in ChatStream)
ChatCount(p) ==
    /\ pc[p] = "c_count"
    /\ conversations' = [conversations EXCEPT ![conv[p]] = IncrementMessageCount(@)]
    /\ out' = [out EXCEPT ![p] = IF Cancelled(p) THEN @ ELSE Append(@, "DONE")]
    /\ pc' = [pc EXCEPT ![p] = "done"]
    /\ UNCHANGED <<users, transactions, projects, messages, auditLog, client, started,
                   op, user, args, genLocals, conv, ctx, opened, full, stream,
                   dl, ret, resp>>

\* the caller aborts the response stream while the route is in the relay
\* loop; the route passes no signal to chatStream, which goes on
ChatAbort(p) ==
    /\ op[p] = "chat"
    /\ pc[p] = "c_stream"
    /\ ~Cancelled(p)
    /\ out' = [out EXCEPT ![p] = Append(@, "cancel")]
    /\ UNCHANGED <<store, client, started, pc, op, user, args, genLocals, conv, ctx,
                   opened, full, stream, dl, ret, resp>>

\* ------------------------------------------------------------------------
\* EmergentClient.request: the retry loop of one call
\* ------------------------------------------------------------------------
\* the call: the abort timer is armed once, before the loop
RequestCall ==
    /\ net.phase = "idle"
    /\ net' = [NoRequest EXCEPT !.phase = "fetch", !.timer = "armed"]
    /\ UNCHANGED <<program, dec>>

\* fetch resolves with a response: clearTimeout, then return the body or
\* throw into the catch block
FetchResponds ==
    /\ net.phase = "fetch" /\ net.timer # "fired"
    /\ \E o \in FetchResponses :
         LET n == [net EXCEPT !.log = Append(@, o), !.timer = clearTimeout(@)]
         IN net' = IF Succeeds(o) THEN [n EXCEPT !.phase = "returned"]
                   ELSE RequestCatch(n, o)
    /\ UNCHANGED <<program, dec>>

\* fetch rejects with a network error: the timer is left as it is
FetchRejected ==
    /\ net.phase = "fetch" /\ net.timer # "fired"
    /\ net' = RequestCatch([net EXCEPT !.log = Append(@, NetworkError)],
                           NetworkError)
    /\ UNCHANGED <<program, dec>>

\* the timer armed before the loop expires: controller.abort()
RequestTimeout ==
    /\ net.phase \in {"fetch", "sleep"} /\ net.timer = "armed"
    /\ net' = [net EXCEPT !.timer = "fired"]
    /\ UNCHANGED <<program, dec>>

\* fetch rejects because the signal is aborted
FetchAborted ==
    /\ net.phase = "fetch" /\ net.timer = "fired"
    /\ net' = RequestCatch([net EXCEPT !.log = Append(@, AbortError)],
                           AbortError)
    /\ UNCHANGED <<program, dec>>

\* the backoff sleep ends: attempt++ and the next fetch
RequestWake ==
    /\ net.phase = "sleep"
    /\ net' = [net EXCEPT !.phase = "fetch", !.attempt = @ + 1]
    /\ UNCHANGED <<program, dec>>

\* ------------------------------------------------------------------------
\* EmergentClient.chatStream: decoding one response body
\* ------------------------------------------------------------------------
\* the response arrives: a stream of lines, delivered by the reader in two
\* chunks cut at any byte
StreamOpen ==
    /\ dec.phase = "idle"
    /\ \E n \in 0..MaxLines :
         \E lines \in [1..n -> LineKinds], terminated \in BOOLEAN :
           LET whole == Bytes(lines, terminated)
           IN \E cut \in 0..Len(whole) :
                dec' = [NoDecode EXCEPT
                          !.phase = "reading", !.lines = lines,
                          !.terminated = terminated, !.cut = cut,
                          !.whole = whole,
                          !.chunks = <<SubSeq(whole, 1, cut),
                                       SubSeq(whole, cut + 1, Len(whole))>>]
    /\ UNCHANGED <<program, net>>

\* reader.read() delivers a chunk
StreamRead ==
    /\ dec.phase = "reading" /\ dec.chunks # <<>>
    /\ LET d == DecodeChunk([dec EXCEPT !.chunks = Tail(@)], Head(dec.chunks))
       IN dec' = IF d.done THEN [d EXCEPT !.phase = "returned"] ELSE d
    /\ UNCHANGED <<program, net>>

\* reader.read() reports done: break
StreamEnd ==
    /\ dec.phase = "reading" /\ dec.chunks = <<>>
    /\ dec' = [dec EXCEPT !.phase = "ended"]
    /\ UNCHANGED <<program, net>>

\* ------------------------------------------------------------------------
\* Specifications
\* ------------------------------------------------------------------------
\* the steps of deductCredits
Deduct(p) ==
    \/ DeductFind(p)
    \/ DeductUpdate(p)
    \/ DeductCreate(p)

\* the steps of POST /api/generate after authentication
Generate(p) ==
    \/ GenerateProvider(p)
    \/ GeneratePersist(p)

\* the steps of POST /api/chat after authentication
Chat(p) ==
    \/ ChatConversation(p)
    \/ ChatSaveUser(p)
    \/ ChatHistory(p)
    \/ ChatStream(p)
    \/ ChatSaveAssistant(p)
    \/ ChatCount(p)

\* the steps of POST and PATCH /api/credits after authentication
Credits(p) ==
    \/ AddUpdate(p)
    \/ AddCreate(p)
    \/ AdjustFind(p)
    \/ AdjustTransaction(p)

\* one step of handler p, any session calling any route
Step(p) ==
    \/ \E who \in Accounts : StartGenerate(p, who)
    \/ \E who \in Accounts, hasAttachments \in BOOLEAN :
          StartChat(p, who, hasAttachments)
    \/ \E c \in CreditCallers, userId \in Accounts : StartAddCredits(p, c, userId)
    \/ \E who \in Accounts, userId \in Accounts : StartAdjust(p, who, userId)
    \/ Generate(p)
    \/ Chat(p)
    \/ Credits(p)
    \/ Deduct(p)

\* handlers interleave at every await
Next == \E p \in Procs : Step(p)

Spec == Init /\ [][Next]_vars

\* no other handler is in flight
Alone(p) == \A q \in Procs \ {p} : Free(q)

\* requests served one at a time: a request arrives only when no handler is
\* in flight
StepSerial(p) ==
    \/ Alone(p) /\ \E who \in Accounts : StartGenerate(p, who)
    \/ Alone(p) /\ \E who \in Accounts, hasAttachments \in BOOLEAN :
                      StartChat(p, who, hasAttachments)
    \/ Alone(p) /\ \E c \in CreditCallers, userId \in Accounts :
                      StartAddCredits(p, c, userId)
    \/ Alone(p) /\ \E who \in Accounts, userId \in Accounts :
                      StartAdjust(p, who, userId)
    \/ Generate(p)
    \/ Chat(p)
    \/ Credits(p)
    \/ Deduct(p)

NextSerial == \E p \in Procs : StepSerial(p)

SpecSerial == InitAdjusted /\ [][NextSerial]_vars

\* the ledger under generation load: u1 and the admin generate while the
\* admin adjusts the balance of u1
StepLedger(p) ==
    \/ \E who \in Accounts : StartGenerate(p, who)
    \/ StartAdjust(p, "a1", "u1")
    \/ Generate(p)
    \/ AdjustFind(p)
    \/ AdjustTransaction(p)
    \/ Deduct(p)

NextLedger == \E p \in Procs : StepLedger(p)

SpecLedger == InitAdjusted /\ [][NextLedger]_vars

\* the admin at work: the admin generates and chats while credits are added
\* to and taken from the admin's own account
StepAdmin(p) ==
    \/ StartGenerate(p, "a1")
    \/ \E hasAttachments \in BOOLEAN : StartChat(p, "a1", hasAttachments)
    \/ StartAddCredits(p, WebhookCaller, "a1")
    \/ Generate(p)
    \/ Chat(p)
    \/ AddUpdate(p)
    \/ AddCreate(p)
    \/ DeductFind(p)

NextAdmin == \E p \in Procs : StepAdmin(p)

SpecAdmin == Init /\ [][NextAdmin]_vars

\* chat load: u1 sends chat messages that overlap in time
StepChat(p) ==
    \/ \E hasAttachments \in BOOLEAN : StartChat(p, "u1", hasAttachments)
    \/ Chat(p)
    \/ Deduct(p)

NextChat == \E p \in Procs : StepChat(p)

SpecChat == InitAdjusted /\ [][NextChat]_vars

\* one call of EmergentClient.request against a provider that may answer
\* anything, fail, or not answer
NextRequest ==
    \/ RequestCall
    \/ FetchResponds
    \/ FetchRejected
    \/ RequestTimeout
    \/ FetchAborted
    \/ RequestWake

SpecRequest == Init /\ [][NextRequest]_vars

\* the same, where timers expire and the client's own steps are taken; the
\* provider is not obliged to answer
SpecRequestFair ==
    /\ SpecRequest
    /\ WF_vars(RequestTimeout)
    /\ WF_vars(FetchAborted)
    /\ WF_vars(RequestWake)

\* one decoding of a chat response body
NextDecode ==
    \/ StreamOpen
    \/ StreamRead
    \/ StreamEnd

SpecDecode == Init /\ [][NextDecode]_vars


\* generations of the user account served one at a time, with any client
\* configuration and provider answers around the cost thresholds
StepGenerate(p) ==
    \/ Alone(p) /\ StartGenerate(p, "u1")
    \/ GenerateConfigured(p)
    \/ GeneratePersist(p)
    \/ Deduct(p)

NextGenerate == \E p \in Procs : StepGenerate(p)

SpecGenerate == Init /\ [][NextGenerate]_vars


\* chats of the user account served one at a time, which the caller may abort
StepStream(p) ==
    \/ Alone(p) /\ \E hasAttachments \in BOOLEAN : StartChat(p, "u1", hasAttachments)
    \/ Chat(p)
    \/ Deduct(p)
    \/ ChatAbort(p)

NextStream == \E p \in Procs : StepStream(p)

SpecStream == Init /\ [][NextStream]_vars


\* chats of the user account served one at a time, on a store that holds a
\* conversation of HistoryTake messages
SpecHistory == InitLongConversation /\ [][NextStream]_vars


\* generations and chats of the user account served one at a time, on a
\* store that may refuse the write of a usage transaction
StepStoreFailure(p) ==
    \/ Alone(p) /\ StartGenerate(p, "u1")
    \/ Alone(p) /\ \E hasAttachments \in BOOLEAN : StartChat(p, "u1", hasAttachments)
    \/ Generate(p)
    \/ Chat(p)
    \/ Deduct(p)
    \/ DeductCreateFails(p)

NextStoreFailure == \E p \in Procs : StepStoreFailure(p)

SpecStoreFailure == InitAdjusted /\ [][NextStoreFailure]_vars

\* ------------------------------------------------------------------------
\* Properties
\* ------------------------------------------------------------------------
\* handler p has come back from a call of deductCredits in its current request
DebitReturned(p) == op[p] \in {"generate", "chat"} /\ ret[p].valid

\* the sum of the amounts of the transactions of account u among the first n
RECURSIVE SumAmounts(_, _)
SumAmounts(u, n) ==
    IF n = 0 THEN 0
    ELSE SumAmounts(u, n - 1)
         + (IF transactions[n].userId = u THEN transactions[n].amount ELSE 0)

\* no handler is in flight
Quiescent == \A p \in Procs : Free(p)

\* the handler that receives the request in a step where one arrives
Arriving(p) == CanStart(p) /\ started' = started + 1

\* C1: two debits of one non-admin account that overlap in time, that both
\* read the balance B and of which B covers either but not both, never both
\* report success
ConcurrentDebitsAtMostOneSucceeds ==
    \A p \in Procs : \A q \in Procs \ {p} :
        ( /\ DebitReturned(p) /\ DebitReturned(q)
          /\ dl[p].userId = dl[q].userId
          /\ ~DeductIsAdmin(dl[p].userId)
          /\ dl[p].overlap \/ dl[q].overlap
          /\ dl[p].credits = dl[q].credits
          /\ dl[p].amount <= dl[p].credits
          /\ dl[q].amount <= dl[q].credits
          /\ dl[p].amount + dl[q].amount > dl[p].credits )
        => ~(ret[p].success /\ ret[q].success)

\* C2: a debit of A <= B on a non-admin account with balance B that runs alone
\* succeeds, leaves the balance at B - A, reports B - A as remaining and
\* appends exactly one transaction, of amount -A and resulting balance B - A
DebitAloneAppendsBalanceSnapshot ==
    \A p \in Procs :
        ( /\ DebitReturned(p) /\ Alone(p)
          /\ ~DeductIsAdmin(dl[p].userId)
          /\ dl[p].amount <= dl[p].credits )
        => LET B == dl[p].credits
               A == dl[p].amount
           IN /\ ret[p].success
              /\ ret[p].remaining = B - A
              /\ users[dl[p].userId].credits = B - A
              /\ Len(transactions) = dl[p].ntx + 1
              /\ LET t == transactions[Len(transactions)]
                 IN /\ t.userId = dl[p].userId
                    /\ t.amount = -A
                    /\ "balance" \in DOMAIN t
                    /\ t.balance = B - A

\* C3: a debit of A > B on a non-admin account with balance B reports failure
\* and B as remaining, and changes neither the balance nor the transactions
DebitBeyondBalanceFails ==
    [][\A p \in Procs :
         LET u == dl[p].userId
         IN ( /\ pc[p] = "d_find" /\ pc'[p] # "d_find"
              /\ users[u].exists
              /\ ~checkIsAdmin(u, users[u].role)
              /\ dl[p].amount > users[u].credits )
            => /\ ret'[p] = [valid |-> TRUE, success |-> FALSE,
                             remaining |-> users[u].credits]
               /\ pc'[p] \notin {"d_update", "d_create"}
               /\ users' = users
               /\ transactions' = transactions]_vars

\* C3, its case: a debit has come back refused, the amount above the balance
DebitBeyondBalanceSeen ==
    \E p \in Procs :
        /\ DebitReturned(p)
        /\ ~DeductIsAdmin(dl[p].userId)
        /\ dl[p].amount > dl[p].credits
        /\ ~ret[p].success
        /\ ret[p].remaining = dl[p].credits

\* C4: a request of an admin sees an unlimited balance, is never answered
\* "insufficient credits", and its debit succeeds with the unlimited marker
\* without ever reaching the decrement, whatever the stored balance is
AdminNeverLimited ==
    \A p \in Procs :
        user[p].isAdmin =>
            /\ user[p].credits = Infinity
            /\ resp[p].status # 402
            /\ pc[p] \notin {"d_update", "d_create"}
            /\ DebitReturned(p) =>
                 ret[p] = [valid |-> TRUE, success |-> TRUE, remaining |-> Infinity]

\* C4, its case: an admin whose stored balance is below the amount has been
\* debited with success
AdminDebitedBelowStoredBalance ==
    \E p \in Procs :
        /\ user[p].isAdmin
        /\ DebitReturned(p)
        /\ ret[p].success
        /\ users[user[p].id].credits < dl[p].amount

\* C5: with no request in flight, the amounts of the transactions of a
\* non-admin account add up to its stored balance
LedgerSumEqualsBalance ==
    Quiescent =>
        \A u \in Accounts :
            (users[u].exists /\ ~checkIsAdmin(u, users[u].role))
            => SumAmounts(u, Len(transactions)) = users[u].credits

\* C6: the stored balance of every account is never negative
BalanceNeverNegative ==
    \A u \in Accounts : users[u].exists => users[u].credits >= 0

\* C7: when emergent.generate comes back without success the route answers
\* with a failure and the step changes no balance, appends no transaction and
\* persists no project; the request neither creates a project nor debits
FailedGenerationNotCharged ==
    [][\A p \in Procs :
         ( /\ pc[p] = "g_provider" /\ pc'[p] # "g_provider"
           /\ ~result'[p].success )
         => /\ pc'[p] = "done"
            /\ resp'[p].status = 500
            /\ ~resp'[p].success
            /\ project'[p] = 0
            /\ ~ret'[p].valid
            /\ users' = users
            /\ transactions' = transactions
            /\ projects' = projects]_vars

\* C7, its case: a generate request has ended on a provider failure
FailedGenerationSeen ==
    \E p \in Procs :
        /\ op[p] = "generate" /\ pc[p] = "done"
        /\ ~result[p].success
        /\ resp[p].status = 500
        /\ users[user[p].id].exists

\* C8: a generate request of a non-admin whose debit is refused for lack of
\* balance has persisted no project and is answered "insufficient credits"
\* with the required and the available amount
InsufficientGenerateNotPersisted ==
    \A p \in Procs :
        ( /\ op[p] = "generate" /\ DebitReturned(p)
          /\ ~user[p].isAdmin
          /\ ~ret[p].success )
        => /\ project[p] = 0
           /\ resp[p].status = 402
           /\ resp[p].required = dl[p].amount
           /\ resp[p].available = dl[p].credits

\* C9: a chat request of a non-admin whose balance, as read when the request
\* is authenticated, is below the chat cost ends in that step with the
\* insufficient-credits answer (required = the cost, available = the balance)
\* and the step creates no conversation, message or transaction, changes no
\* balance, opens no provider stream and calls no debit
ChatInsufficientAborts ==
    [][\A p \in Procs :
         ( /\ Arriving(p)
           /\ op'[p] = "chat"
           /\ ~user'[p].isAdmin
           /\ user'[p].credits < ChatCost(args'[p].hasAttachments) )
         => /\ pc'[p] = "done"
            /\ resp'[p] = [NoResp EXCEPT
                             !.status = 402,
                             !.required = ChatCost(args'[p].hasAttachments),
                             !.available = users[user'[p].id].credits]
            /\ conv'[p] = 0
            /\ ~opened'[p]
            /\ ~ret'[p].valid
            /\ users' = users
            /\ conversations' = conversations
            /\ messages' = messages
            /\ transactions' = transactions]_vars

\* C9, its case: a chat request has been refused for insufficient credits
ChatInsufficientSeen ==
    \E p \in Procs :
        /\ op[p] = "chat" /\ pc[p] = "done"
        /\ resp[p].status = 402
        /\ resp[p].available < resp[p].required
        /\ resp[p].available >= 0
        /\ users[user[p].id].credits = resp[p].available
        /\ conv[p] = 0 /\ ~opened[p]

\* C10: a generate request answered with success to a non-admin at cost c has
\* been debited: its debit succeeded and left the balance it read less c, a
\* usage transaction of -c exists, and its project is READY with creditsCost c
SuccessfulGenerateWasDebited ==
    \A p \in Procs :
        ( /\ op[p] = "generate" /\ pc[p] = "done"
          /\ resp[p].status = 200
          /\ ~user[p].isAdmin )
        => LET c == resp[p].creditsCost
           IN /\ DebitReturned(p)
              /\ ret[p].success
              /\ ret[p].remaining = dl[p].credits - c
              /\ \E i \in 1..Len(transactions) :
                   transactions[i] = UsageTransaction(user[p].id, c)
              /\ project[p] \in 1..Len(projects)
              /\ projects[project[p]].status = "READY"
              /\ projects[project[p]].creditsCost = c

\* C11: in the chat flow of a non-admin, once the provider stream has been
\* dispatched the debit of the request has succeeded and its usage
\* transaction for the chat cost exists
StreamOpenedOnlyAfterDebit ==
    \A p \in Procs :
        (op[p] = "chat" /\ ~user[p].isAdmin /\ opened[p])
        => /\ DebitReturned(p)
           /\ ret[p].success
           /\ \E i \in (dl[p].ntx + 1)..Len(transactions) :
                transactions[i] =
                    UsageTransaction(user[p].id, ChatCost(args[p].hasAttachments))

\* the assistant messages persisted in conversation c
AssistantMessages(c) ==
    {i \in 1..Len(messages) :
        messages[i].conversationId = c /\ messages[i].role = "ASSISTANT"}

\* the exchanges of conversation c that have completed: the assistant message
\* is persisted and the handler is past the update of the count
CompletedExchanges(c) ==
    Cardinality(AssistantMessages(c))
    - Cardinality({p \in Procs : pc[p] = "c_count" /\ conv[p] = c})

\* C12: the messageCount of every conversation is twice the number of chat
\* exchanges completed on it, whether they ran one after another or overlapped
MessageCountIsTwiceExchanges ==
    \A c \in 1..Len(conversations) :
        conversations[c].messageCount = 2 * CompletedExchanges(c)

\* C12, its case: two exchanges that overlapped (both user messages were
\* saved before either answer) have completed on one conversation
TwoOverlappingExchangesCounted ==
    \E c \in 1..Len(conversations) :
        /\ CompletedExchanges(c) = 2
        /\ conversations[c].messageCount = 4
        /\ Len(MessagesOf(c)) = 4
        /\ messages[MessagesOf(c)[1]].role = "USER"
        /\ messages[MessagesOf(c)[2]].role = "USER"

\* an HTTP 4xx response other than 429
Rejected4xx(o) ==
    o.kind = "response" /\ o.status >= 400 /\ o.status <= 499 /\ o.status # 429

\* a network error, a timeout, a 5xx or a 429
TransientFailure(o) ==
    \/ o.kind \in {"network", "abort"}
    \/ o.kind = "response" /\ (o.status >= 500 \/ o.status = 429)

\* at most maxRetries + 1 attempts; a 4xx other than 429 is the last attempt,
\* is thrown, and no backoff sleep follows it
RetryLoopBounded ==
    /\ Len(net.log) <= maxRetries + 1
    /\ \A i \in 1..Len(net.log) :
         Rejected4xx(net.log[i])
         => /\ i = Len(net.log)
            /\ net.phase = "thrown"
            /\ net.lastError = net.log[i]
            /\ Len(net.sleeps) = i - 1
    /\ (Len(net.log) >= 1 /\ net.log[1].kind = "response" /\ net.log[1].status = 404)
       => (Len(net.log) = 1 /\ net.sleeps = <<>>)

BackoffDoubles ==
    /\ \A i \in 1..Len(net.sleeps) : net.sleeps[i] = retryDelay * (2 ^ (i - 1))
    /\ \A i \in 1..(Len(net.log) - 1) : ~Succeeds(net.log[i])
    /\ net.phase = "fetch"
       => (Len(net.sleeps) = Len(net.log) /\ net.attempt = Len(net.log))
    /\ net.phase = "sleep"
       => /\ Len(net.sleeps) = Len(net.log)
          /\ net.attempt = Len(net.log) - 1
          /\ net.attempt < maxRetries
    /\ net.phase = "returned"
       => /\ Succeeds(net.log[Len(net.log)])
          /\ Len(net.sleeps) = Len(net.log) - 1
    /\ Len(net.log) = maxRetries + 1
       => (Len(net.sleeps) = maxRetries /\ net.phase \in {"returned", "thrown"})
    /\ net.log = <<Answer(503, TRUE), Answer(503, TRUE), Answer(200, TRUE)>>
       => (net.phase = "returned" /\ net.sleeps = <<retryDelay, 2 * retryDelay>>)

\* C14, its case: 503, 503, then 200
SucceededOnThirdAttempt ==
    /\ net.phase = "returned"
    /\ net.log = <<Answer(503, TRUE), Answer(503, TRUE), Answer(200, TRUE)>>
    /\ net.sleeps = <<retryDelay, 2 * retryDelay>>

\* C15: a call of request always comes to an end, whether or not the provider
\* answers: every attempt is cancelled by the timeout
RequestAlwaysEnds ==
    (net.phase # "idle") ~> (net.phase \in {"returned", "thrown"})

\* the decoding has come to its end: the reader is done or the sentinel was met
Decoded == dec.phase \in {"ended", "returned"}

\* C16: however the response body is cut into two chunks, chatStream yields
\* the fragments it yields when the body arrives as one chunk
ChunkingDoesNotMatter ==
    Decoded => dec.yielded = chatStreamYield(NoDecode, <<dec.whole>>)

\* C16, its case: a body cut inside the "data: " marker of a record that
\* carries a fragment has been decoded
CutInsideMarkerDecoded ==
    /\ Decoded
    /\ dec.cut \in 1..(Len(Marker) - 1)
    /\ Len(dec.lines) >= 1 /\ dec.lines[1] \in Fragments
    /\ Len(dec.whole) > Len(Marker) + 3
    /\ dec.yielded # <<>>

\* the lines of the body that end with a newline
CompleteLines ==
    IF dec.terminated \/ dec.lines = <<>> THEN dec.lines
    ELSE SubSeq(dec.lines, 1, Len(dec.lines) - 1)

\* the lines before the first sentinel
RECURSIVE BeforeDone(_)
BeforeDone(lines) ==
    IF lines = <<>> \/ Head(lines) = "done" THEN <<>>
    ELSE <<Head(lines)>> \o BeforeDone(Tail(lines))

\* C17: chatStream yields, in order, the fragment of every well-formed record
\* that precedes the sentinel, whatever malformed records stand between them,
\* and nothing of what follows the sentinel
MalformedRecordSkipped ==
    Decoded =>
        dec.yielded = SelectSeq(BeforeDone(CompleteLines),
                                LAMBDA kind : kind \in Fragments)

\* C17, its case: a malformed record between two well-formed ones
MalformedBetweenFragments ==
    /\ Decoded
    /\ dec.lines = <<"A", "malformed", "B">>
    /\ dec.terminated
    /\ dec.yielded = <<"A", "B">>

\* C18: an admin adjustment by d of a non-admin account with balance P sets
\* the balance to max(0, P + d), appends one ADJUSTMENT transaction that
\* records that balance, and answers (P, max(0, P + d)); the adjustment of an
\* admin account is rejected and changes neither balances nor transactions
AdjustSetsFlooredBalance ==
    [][\A p \in Procs :
         LET u == args[p].userId
             P == users[u].credits
             d == args[p].amount
             N == IF P + d > 0 THEN P + d ELSE 0
         IN /\ ( /\ pc[p] = "p_find" /\ pc'[p] # "p_find"
                 /\ users[u].exists
                 /\ (users[u].role = "ADMIN" \/ u \in ADMIN_EMAILS) )
               => /\ pc'[p] = "done"
                  /\ resp'[p].status = 400
                  /\ users' = users
                  /\ transactions' = transactions
            /\ (pc[p] = "p_tx" /\ pc'[p] # "p_tx")
               => /\ users' = [users EXCEPT ![u].credits = N]
                  /\ transactions' =
                        Append(transactions,
                               [userId |-> u, type |-> "ADJUSTMENT",
                                amount |-> d, balance |-> N])
                  /\ pc'[p] = "done"
                  /\ resp'[p].status = 200
                  /\ resp'[p].previousBalance = P
                  /\ resp'[p].newBalance = N]_vars

\* C18, its case: an adjustment below zero has been answered with balance 0
AdjustFlooredSeen ==
    \E p \in Procs :
        /\ op[p] = "credits.adjust" /\ pc[p] = "done"
        /\ resp[p].status = 200
        /\ resp[p].previousBalance + args[p].amount < 0
        /\ resp[p].newBalance = 0
        /\ transactions[Len(transactions)].type = "ADJUSTMENT"
        /\ transactions[Len(transactions)].balance = 0

\* C19: when an adjustment by d and a successful debit of A of the same
\* account, starting from balance P, are the only two operations to have run,
\* the balance is what one of the two serial orders gives
AdjustSerializesWithDebit ==
    \A p \in Procs : \A q \in Procs \ {p} :
        ( /\ Quiescent
          /\ op[p] = "credits.adjust" /\ resp[p].status = 200
          /\ op[q] = "generate" /\ DebitReturned(q) /\ ret[q].success
          /\ dl[q].userId = dl[p].userId
          /\ ~DeductIsAdmin(dl[q].userId)
          /\ Len(transactions) = Min(dl[p].ntx, dl[q].ntx) + 2 )
        => LET P == Max(dl[p].credits, dl[q].credits)
               d == dl[p].amount
               A == dl[q].amount
               debitFirst == Max(0, (P - A) + d)
               adjustFirst == Max(0, P + d) - A
           IN \/ users[dl[p].userId].credits = debitFirst
              \/ adjustFirst >= 0 /\ users[dl[p].userId].credits = adjustFirst

\* C20: once addCredits has changed the balance of an account from B to
\* B + a, the transaction of amount a, of the given type and with resulting
\* balance B + a exists
CreditAppliedWithTransaction ==
    \A p \in Procs :
        (op[p] = "credits.add" /\ dl[p].userId # NoOne)
        => /\ dl[p].updated = dl[p].credits + args[p].amount
           /\ \E i \in (dl[p].ntx + 1)..Len(transactions) :
                LET t == transactions[i]
                IN /\ t.userId = args[p].userId
                   /\ t.amount = args[p].amount
                   /\ t.type = args[p].type
                   /\ "balance" \in DOMAIN t
                   /\ t.balance = dl[p].credits + args[p].amount

\* the three-tier rule as the specification states it
TierOf(promptLength, totalSize, fileCount) ==
    IF promptLength > 1000 \/ totalSize > 100000 \/ fileCount > 20
    THEN GenAdvanced
    ELSE IF promptLength > 500 \/ totalSize > 50000
    THEN GenStandard
    ELSE GenBasic

\* s is at least t in each of the three inputs
AtLeast(s, t) == s[1] >= t[1] /\ s[2] >= t[2] /\ s[3] >= t[3]

\* the cost a live client computes for an answer is the tier of the rule,
\* and no answer that is at least as large in every input costs less
LiveCostIsTiered ==
    \A p \in Procs :
        (result[p].success /\ ~result[p].mocked)
        => LET r == result[p]
               t == <<r.promptLength, r.totalContentLength, r.nfiles>>
           IN /\ r.estimatedCost = TierOf(t[1], t[2], t[3])
              /\ \A s \in CostShapes :
                    AtLeast(s, t)
                    => calculateGenerationCost(s[1], s[2], s[3]) >= r.estimatedCost

\* C21: every Generate answered with success was charged the tier of the
\* three-tier rule for its prompt length, total output size and file count:
\* the cost answered, the cost of the project row and the amount debited are
\* that tier
SuccessfulGenerateChargedTier ==
    \A p \in Procs :
        (op[p] = "generate" /\ pc[p] = "done" /\ resp[p].status = 200)
        => LET r == result[p]
               c == TierOf(r.promptLength, r.totalContentLength, r.nfiles)
           IN /\ resp[p].creditsCost = c
              /\ projects[project[p]].creditsCost = c
              /\ ret[p].success => dl[p].amount = c

\* C26: a successful result of generate has at least one file, so every
\* project row has at least one file and every generation debit is for a
\* result with at least one file
SuccessfulGenerateHasFiles ==
    /\ \A p \in Procs : result[p].success => result[p].nfiles > 0
    /\ \A i \in 1..Len(projects) : projects[i].nfiles > 0
    /\ \A p \in Procs :
          (op[p] = "generate" /\ DebitReturned(p) /\ ret[p].success)
          => result[p].nfiles > 0

\* the debit of the chat request of handler p is in the store: the balance is
\* the one the debit wrote and the last transaction is its usage
\* transaction, so nothing was refunded
DebitStands(p) ==
    /\ ret[p].valid /\ ret[p].success
    /\ users[user[p].id].credits = dl[p].credits - args[p].amount
    /\ Len(transactions) = dl[p].ntx + 1
    /\ transactions[Len(transactions)] = UsageTransaction(user[p].id, args[p].amount)

\* handler p is about to receive an error of the provider stream on a
\* response stream the caller has not cancelled
StreamThrows(p) ==
    /\ op[p] = "chat" /\ pc[p] = "c_stream"
    /\ stream[p] # <<>> /\ Head(stream[p]) = "error"
    /\ ~Cancelled(p)

AbortedExchangeNeverAnswered ==
    \A p \in Procs :
        (op[p] = "chat" /\ Cancelled(p))
        => /\ out[p][Len(out[p])] = "cancel"
           /\ messages[Len(messages)].role = "USER"
           /\ DebitStands(p)

\* the message stored last is one of conversation c with the given role
LastMessageIs(c, role) ==
    /\ messages # <<>>
    /\ messages[Len(messages)].conversationId = c
    /\ messages[Len(messages)].role = role

\* C24: within one chat request the user message is persisted before the
\* provider stream is dispatched, the assistant message is persisted only
\* after the provider stream has been drained to its end, and the done marker
\* is emitted only once the assistant message and the messageCount update
\* are persisted
ChatStepsInOrder ==
    /\ [][\A p \in Procs :
            /\ (~opened[p] /\ opened'[p])
               => /\ LastMessageIs(conv[p], "USER")
                  /\ messages' = messages
            /\ (pc[p] = "c_assistant" /\ pc'[p] # pc[p])
               => /\ stream[p] = <<>>
                  /\ LastMessageIs(conv[p], "USER")
                  /\ messages' = Append(messages,
                                        [conversationId |-> conv[p],
                                         role |-> "ASSISTANT",
                                         content |-> full[p]])
                  /\ out'[p] = out[p]
            /\ (out'[p] # out[p] /\ out'[p] # <<>>
                /\ out'[p][Len(out'[p])] = "DONE")
               => /\ LastMessageIs(conv[p], "ASSISTANT")
                  /\ messages' = messages
                  /\ conversations'[conv[p]].messageCount
                        = conversations[conv[p]].messageCount + 2]_vars
    /\ [](\A p \in Procs :
            (op[p] = "chat" /\ out[p] # <<>> /\ out[p][Len(out[p])] = "DONE")
            => /\ pc[p] = "done"
               /\ stream[p] = <<>>
               /\ LastMessageIs(conv[p], "ASSISTANT")
               /\ messages[Len(messages)].content = full[p]
               /\ conversations[conv[p]].messageCount
                     = 2 * Cardinality(AssistantMessages(conv[p])))

\* C24, its case: an exchange has completed: one fragment relayed, the
\* assistant message holding it stored after the user message, the count at 2
\* and the done marker sent
ExchangeCompletedInOrder ==
    \E p \in Procs :
        /\ op[p] = "chat" /\ pc[p] = "done"
        /\ out[p] = <<"content", "DONE">>
        /\ messages = <<[conversationId |-> conv[p], role |-> "USER",
                         content |-> <<"message">>],
                        [conversationId |-> conv[p], role |-> "ASSISTANT",
                         content |-> <<"chunk">>]>>
        /\ conversations[conv[p]].messageCount = 2

\* the last n elements of sequence s
LastOf(s, n) == SubSeq(s, Max(1, Len(s) - n + 1), Len(s))

\* C25: the context sent to the model is the system instruction followed by
\* the HistoryTake most recent messages of the conversation, oldest first,
\* and so ends with the user message the request has just persisted
ContextIsMostRecentMessages ==
    \A p \in Procs :
        (op[p] = "chat" /\ pc[p] = "c_stream")
        => /\ ctx[p] = <<0>> \o LastOf(MessagesOf(conv[p]), HistoryTake)
           /\ ctx[p][Len(ctx[p])] = Len(messages)
           /\ messages[Len(messages)].role = "USER"

\* the positions of the terminal markers in the response stream of handler p
Markers(p) == {i \in 1..Len(out[p]) : out[p][i] \in {"DONE", "error"}}

\* the response stream of handler p is over: the route has left its start
\* method
StreamOver(p) == op[p] = "chat" /\ opened[p] /\ pc[p] = "done"

\* C27 as stated: every chat response stream that is over holds exactly one
\* terminal marker, as its last event
EveryStreamEndsWithOneMarker ==
    \A p \in Procs :
        StreamOver(p) => Markers(p) = {Len(out[p])} /\ out[p] # <<>>

\* C27: every chat response stream the caller has not cancelled ends with
\* exactly one terminal marker; no stream holds both markers or any event
\* after a terminal marker; the done marker is enqueued only by the step that
\* follows the persistence of the assistant message, and the error marker
\* only by the catch of a provider error
UncancelledStreamEndsWithOneMarker ==
    /\ [](\A p \in Procs :
            /\ Cardinality(Markers(p)) <= 1
            /\ \A i \in Markers(p) : i = Len(out[p]) /\ pc[p] = "done"
            /\ (StreamOver(p) /\ ~Cancelled(p))
               => Markers(p) = {Len(out[p])} /\ out[p] # <<>>)
    /\ [][\A p \in Procs :
            (out'[p] # out[p] /\ out'[p] # <<>>)
            => /\ out'[p][Len(out'[p])] = "DONE"
                  => pc[p] = "c_count" /\ LastMessageIs(conv[p], "ASSISTANT")
               /\ out'[p][Len(out'[p])] = "error" => StreamThrows(p)]_vars

\* C27, its case: a stream that relayed a fragment was ended by the done
\* marker, and the stream of the request before it by the error marker
StreamsEndedByMarkers ==
    \E p \in Procs :
        /\ StreamOver(p) /\ ~Cancelled(p)
        /\ out[p] = <<"content", "DONE">>
        /\ Len(messages) = 3

\* handler p takes the step
Stepping(p) == pc'[p] # pc[p]

\* C28: a chat request appends messages only to, and updates the counter
\* only of, a conversation owned by its caller: the conversationId supplied
\* is used only if that conversation belongs to the caller, and otherwise the
\* messages go to a conversation owned by the caller
ChatStaysInOwnConversation ==
    /\ [](\A p \in Procs :
            (op[p] = "chat" /\ conv[p] # 0)
            => /\ conversations[conv[p]].userId = user[p].id
               /\ (args[p].conversationId \in 1..Len(conversations)
                   /\ conversations[args[p].conversationId].userId # user[p].id)
                  => conv[p] # args[p].conversationId)
    /\ [][/\ \A c \in 1..Len(conversations) :
               /\ conversations'[c].userId = conversations[c].userId
               /\ conversations'[c] # conversations[c]
                  => \E p \in Procs :
                        /\ Stepping(p) /\ op[p] = "chat"
                        /\ conversations[c].userId = user[p].id
          /\ messages' # messages
             => \E p \in Procs :
                   /\ Stepping(p) /\ op[p] = "chat"
                   /\ messages' = Append(messages, messages'[Len(messages')])
                   /\ messages'[Len(messages')].conversationId = conv[p]
                   /\ conversations[conv[p]].userId = user[p].id]_vars

\* C28, its case: the admin account has asked for a conversation of u1 and
\* its exchange has completed on a conversation of its own
OtherAccountsConversationRefused ==
    \E p \in Procs :
        /\ op[p] = "chat" /\ pc[p] = "done" /\ user[p].id = "a1"
        /\ args[p].conversationId \in 1..Len(conversations)
        /\ conversations[args[p].conversationId].userId = "u1"
        /\ conversations[args[p].conversationId].messageCount = 2
        /\ conv[p] # args[p].conversationId
        /\ conversations[conv[p]] = [userId |-> "a1", messageCount |-> 2]
        /\ LastMessageIs(conv[p], "ASSISTANT")

\* C29: whenever deductCredits has reported failure, the stored balance of
\* the account and the transaction table are what they were when it was
\* called, also when the store failed at the creation of the transaction
FailedDebitChangesNothing ==
    \A p \in Procs :
        (DebitReturned(p) /\ ~ret[p].success /\ users[dl[p].userId].exists)
        => /\ users[dl[p].userId].credits = dl[p].credits
           /\ Len(transactions) = dl[p].ntx

\* a chat exchange is in flight on conversation c
InFlight(c) == \E p \in Procs : op[p] = "chat" /\ conv[p] = c /\ ~Free(p)

\* C30: whenever no chat exchange is in flight on a conversation, its
\* messageCount is the number of messages persisted for it, whatever
\* exchanges have completed, failed mid-stream or been aborted on it
MessageCountIsNumberOfMessages ==
    \A c \in 1..Len(conversations) :
        ~InFlight(c) => conversations[c].messageCount = Len(MessagesOf(c))

====
